---- MODULE Spec2Model ----
(***************************************************************************)
(* BitMap-image-editing: the BMP codec (operator>> / operator<<) and the   *)
(* in-place filters of bitmap.cpp, over byte-exact streams and buffers.    *)
(*                                                                         *)
(* A stream is a sequence of bytes with a read position and a good flag.   *)
(* The three packed header structs are kept as their 14/40/84 bytes of     *)
(* memory (#pragma pack(1)); fields are read and written little-endian.    *)
(* The pixel buffer is the std::vector<uint8_t> data; offset k of the      *)
(* vector is element k+1 of the sequence.                                  *)
(***************************************************************************)
EXTENDS Integers, Sequences, FiniteSets, TLC

VARIABLES inp, in, b, b0, out, b2, in2, pc, result, hist, acc

vars == <<inp, in, b, b0, out, b2, in2, pc, result, hist, acc>>

(* ------------------------------ bounds -------------------------------- *)
MaxW == 4
MaxH == 2
MaxOps == 1

(* --------------------------- program constants ------------------------ *)
SizeofFileHeader == 14
SizeofInfoHeader == 40
SizeofColorHeader == 84
BM == 19778

Min2(x, y) == IF x < y THEN x ELSE y
Max2(x, y) == IF x > y THEN x ELSE y

(* C integer division and remainder (truncation toward zero). *)
CDiv(x, y) == IF x >= 0 THEN x \div y ELSE -((-x) \div y)
CRem(x, y) == x - y * CDiv(x, y)

Zeros(n) == [i \in 1..n |-> 0]

(* ------------------------- little-endian fields ----------------------- *)
U16(s, o) == s[o + 1] + 256 * s[o + 2]
U32(s, o) == s[o + 1] + 256 * s[o + 2] + 65536 * s[o + 3] + 16777216 * s[o + 4]
I32(s, o) ==
    s[o + 1] + 256 * s[o + 2] + 65536 * s[o + 3]
        + 16777216 * (IF s[o + 4] >= 128 THEN s[o + 4] - 256 ELSE s[o + 4])
LE16(v) == <<v % 256, (v \div 256) % 256>>
LE32(v) == <<v % 256, (v \div 256) % 256, (v \div 65536) % 256, (v \div 16777216) % 256>>

(* Overwrite the bytes of s starting at offset o with the bytes of new. *)
Put(s, o, new) ==
    IF o >= 0 /\ o + Len(new) <= Len(s)
    THEN SubSeq(s, 1, o) \o new \o SubSeq(s, o + Len(new) + 1, Len(s))
    ELSE [i \in 1..Len(s) |-> IF i > o /\ i <= o + Len(new) THEN new[i - o] ELSE s[i]]

(* ------------------------------ Bitmap -------------------------------- *)
DefaultColorHeader ==
    <<0, 0, 255, 0>> \o <<0, 255, 0, 0>> \o <<255, 0, 0, 0>> \o <<0, 0, 0, 255>>
        \o <<66, 71, 82, 115>> \o Zeros(64)

NewBitmap ==
    [row_stride |-> 0, imageType |-> 0,
     file_header |-> Zeros(SizeofFileHeader),
     bmp_info_header |-> Zeros(SizeofInfoHeader),
     bmp_color_header |-> DefaultColorHeader,
     data |-> <<>>]

file_type(bm) == U16(bm.file_header, 0)
file_size(bm) == U32(bm.file_header, 2)
offset_data(bm) == U32(bm.file_header, 10)
hdr_size(bm) == U32(bm.bmp_info_header, 0)
width(bm) == I32(bm.bmp_info_header, 4)
height(bm) == I32(bm.bmp_info_header, 8)
bit_count(bm) == U16(bm.bmp_info_header, 14)

SetFileSize(bm, v) == [bm EXCEPT !.file_header = Put(@, 2, LE32(v))]
SetOffsetData(bm, v) == [bm EXCEPT !.file_header = Put(@, 10, LE32(v))]
SetHdrSize(bm, v) == [bm EXCEPT !.bmp_info_header = Put(@, 0, LE32(v))]
SetWidth(bm, v) == [bm EXCEPT !.bmp_info_header = Put(@, 4, LE32(v))]
SetHeight(bm, v) == [bm EXCEPT !.bmp_info_header = Put(@, 8, LE32(v))]

RECURSIVE AlignUp(_, _)
AlignUp(n, align) == IF n % align = 0 THEN n ELSE AlignUp(n + 1, align)

make_stride_aligned(bm, align_stride) == AlignUp(bm.row_stride, align_stride)

(* ------------------------------ istream ------------------------------- *)
(* asked/got count the bytes requested by read() and the bytes delivered;  *)
(* nread counts the read() calls.                                          *)
NewStream(bytes) ==
    [bytes |-> bytes, pos |-> 0, good |-> TRUE, asked |-> 0, got |-> 0, nread |-> 0]

(* istream::read(n): delivers min(n, remaining) bytes; a short read sets    *)
(* eofbit|failbit; on a stream that is not good nothing is extracted.      *)
ReadCount(s, n) ==
    IF ~s.good THEN 0
    ELSE Min2(n, IF s.pos >= Len(s.bytes) THEN 0 ELSE Len(s.bytes) - s.pos)

ReadBytes(s, n) == SubSeq(s.bytes, s.pos + 1, s.pos + ReadCount(s, n))

AfterRead(s, n) ==
    [s EXCEPT !.pos = s.pos + ReadCount(s, n),
              !.good = s.good /\ ReadCount(s, n) = n,
              !.asked = @ + n,
              !.got = @ + ReadCount(s, n),
              !.nread = @ + 1]

(* istream::seekg(off, beg): a no-op when failbit is set. *)
SeekG(s, off) == IF s.good THEN [s EXCEPT !.pos = off] ELSE s

(* A byte of a vector, or the indeterminate value g when the offset lies     *)
(* outside the vector (an out-of-range access is undefined behaviour).      *)
Rd(d, off, g) == IF off >= 0 /\ off < Len(d) THEN d[off + 1] ELSE g

(* ------------------------------ operator>> ---------------------------- *)
SignatureLowByteOnly(bm) == file_type(bm) % 256 = BM % 256

SignatureOk(bm) == file_type(bm) = BM

HasColorMask(bm) == hdr_size(bm) >= SizeofInfoHeader + SizeofColorHeader

DataSize(bm) == CDiv(width(bm) * 3 * 3 * height(bm) * bit_count(bm), 8)

(* vector::resize(n): keeps the prefix, value-initialises the rest. *)
Resize(d, n) == IF n <= Len(d) THEN SubSeq(d, 1, n) ELSE d \o Zeros(n - Len(d))

RowStrideOf(bm) == CDiv(width(bm) * bit_count(bm), 8)

RECURSIVE ReadRows(_, _, _, _)
ReadRows(s, bm, pad, y) ==
    IF y >= height(bm) THEN [in |-> s, b |-> bm]
    ELSE LET s1 == AfterRead(s, bm.row_stride)
             s2 == AfterRead(s1, pad)
         IN ReadRows(s2,
                     [bm EXCEPT !.data = Put(@, bm.row_stride * y, ReadBytes(s, bm.row_stride))],
                     pad, y + 1)

(* Header fields as rewritten for output, file_size started at offset_data. *)
NormalizeHeaders(bm) ==
    LET hs == IF bit_count(bm) = 32 THEN SizeofInfoHeader + SizeofColorHeader
              ELSE SizeofInfoHeader
    IN SetFileSize(SetOffsetData(SetHdrSize(bm, hs), SizeofFileHeader + hs),
                   SizeofFileHeader + hs)

ReadPixels(s, bm) ==
    IF CRem(width(bm), 4) = 0
    THEN [in |-> AfterRead(s, Len(bm.data)),
          b |-> SetFileSize([bm EXCEPT !.data = Put(@, 0, ReadBytes(s, Len(bm.data)))],
                            file_size(bm) + Len(bm.data))]
    ELSE LET bs == [bm EXCEPT !.row_stride = RowStrideOf(bm)]
             pad == make_stride_aligned(bs, 4) - bs.row_stride
             r == ReadRows(s, bs, pad, 0)
         IN [in |-> r.in,
             b |-> SetFileSize(r.b, file_size(bs) + Len(bs.data) + height(bs) * pad)]

(* outcome: "ok" (return in), "runtime_error" (thrown to the caller),       *)
(* "length_error" (thrown by resize to the caller), "caught" (the          *)
(* BitmapException is caught and printed inside operator>>, which then     *)
(* flows off its end without a return statement).                          *)
Decode(s0, bm0) ==
    IF ~s0.good THEN [in |-> s0, b |-> bm0, outcome |-> "runtime_error"]
    ELSE
    LET s1 == AfterRead(s0, SizeofFileHeader)
        d1 == [bm0 EXCEPT !.file_header = Put(@, 0, ReadBytes(s0, SizeofFileHeader))]
    IN IF ~SignatureOk(d1) THEN [in |-> s1, b |-> d1, outcome |-> "runtime_error"]
       ELSE
       LET s2 == AfterRead(s1, SizeofInfoHeader)
           d2a == [d1 EXCEPT !.bmp_info_header = Put(@, 0, ReadBytes(s1, SizeofInfoHeader))]
           d2 == [d2a EXCEPT !.imageType = bit_count(d2a) \div 8]
       IN IF bit_count(d2) = 32 /\ ~HasColorMask(d2)
          THEN [in |-> s2, b |-> d2, outcome |-> "caught"]
          ELSE
          LET s3 == IF bit_count(d2) = 32 THEN AfterRead(s2, SizeofColorHeader) ELSE s2
              d3 == IF bit_count(d2) = 32
                    THEN [d2 EXCEPT !.bmp_color_header =
                                        Put(@, 0, ReadBytes(s2, SizeofColorHeader))]
                    ELSE d2
              s4 == SeekG(s3, offset_data(d3))
              d4 == NormalizeHeaders(d3)
              n == DataSize(d4)
          IN IF n < 0 THEN [in |-> s4, b |-> d4, outcome |-> "length_error"]
             ELSE LET r == ReadPixels(s4, [d4 EXCEPT !.data = Resize(@, n)])
                  IN [in |-> r.in, b |-> r.b, outcome |-> "ok"]

(* ------------------------------ operator<< ---------------------------- *)
write_headers(bm) ==
    bm.file_header \o bm.bmp_info_header
        \o (IF bit_count(bm) = 32 THEN bm.bmp_color_header ELSE <<>>)

write_headers_and_data(bm) == write_headers(bm) \o bm.data

RowBytes(bm, y, g) == [i \in 1..bm.row_stride |-> Rd(bm.data, bm.row_stride * y + i - 1, g)]

RECURSIVE WriteRows(_, _, _, _)
WriteRows(bm, pad, y, g) ==
    IF y >= height(bm) THEN <<>>
    ELSE RowBytes(bm, y, g) \o Zeros(pad) \o WriteRows(bm, pad, y + 1, g)

(* std::vector<uint8_t> padding_row(new_stride - b.row_stride) *)
EncodePaddingNone(bm) == 0

EncodePadding(bm) == make_stride_aligned(bm, 4) - bm.row_stride

(* The bytes put on the stream; thrown is TRUE when runtime_error is thrown; *)
(* oob is TRUE when a row is read from outside the vector.                  *)
Encode(bm, g) ==
    IF bit_count(bm) = 32
    THEN [bytes |-> write_headers_and_data(bm), thrown |-> FALSE, oob |-> FALSE]
    ELSE IF bit_count(bm) = 24
    THEN IF CRem(width(bm), 4) = 0
         THEN [bytes |-> write_headers_and_data(bm), thrown |-> FALSE, oob |-> FALSE]
         ELSE [bytes |-> write_headers(bm) \o WriteRows(bm, EncodePadding(bm), 0, g),
               thrown |-> FALSE,
               oob |-> height(bm) > 0 /\ bm.row_stride * height(bm) > Len(bm.data)]
    ELSE [bytes |-> <<>>, thrown |-> TRUE, oob |-> FALSE]

(* ------------------------- pixel buffer accesses ----------------------- *)
(* A filter threads st through its loops: d is the buffer being written,   *)
(* rlo..rhi the range of offsets read so far, wlo..whi of offsets written. *)
St0(d) == [d |-> d, rlo |-> 0, rhi |-> -1, wlo |-> 0, whi |-> -1]

NoteRd(st, off, n) ==
    [st EXCEPT !.rlo = Min2(@, off), !.rhi = Max2(@, off + n - 1)]

ReadPx(src, off, n, g) == [k \in 1..n |-> Rd(src, off + k - 1, g)]

(* Store vals at offsets off, off+1, ...; a store outside the vector does   *)
(* not land in the vector.                                                 *)
PutPx(d, off, vals) ==
    IF off >= 0 /\ off + Len(vals) <= Len(d)
    THEN IF Len(vals) = 1 THEN [d EXCEPT ![off + 1] = vals[1]]
         ELSE IF Len(vals) = 3
         THEN [d EXCEPT ![off + 1] = vals[1], ![off + 2] = vals[2], ![off + 3] = vals[3]]
         ELSE IF Len(vals) = 4
         THEN [d EXCEPT ![off + 1] = vals[1], ![off + 2] = vals[2],
                        ![off + 3] = vals[3], ![off + 4] = vals[4]]
         ELSE Put(d, off, vals)
    ELSE IF off >= Len(d) \/ off + Len(vals) <= 0 THEN d
    ELSE Put(d, off, vals)

WritePx(st, off, vals) ==
    [st EXCEPT !.d = PutPx(@, off, vals),
               !.wlo = Min2(@, off), !.whi = Max2(@, off + Len(vals) - 1)]

(* TRUE of every st (whi starts at -1 and only grows).  The loops test it   *)
(* first so that the buffer of one iteration is computed before the next   *)
(* iteration starts, as in the sequential code.                            *)
Strict(st) == st.whi >= -1

(* Channels a filter touches per pixel: 0,1,2 and, for imageType 4, 3. *)
NCh(bm) == IF bm.imageType = 4 THEN 4 ELSE 3

(* The result of a filter call: the bitmap, the accesses (rlim and wlim are *)
(* height*row_stride of the buffer read and of the buffer written), and    *)
(* whether an access left the vector.                                      *)
FilterResult(bm1, st, srcbm) ==
    [b |-> [bm1 EXCEPT !.data = st.d],
     acc |-> [rlo |-> st.rlo, rhi |-> st.rhi, rlim |-> height(srcbm) * srcbm.row_stride,
              wlo |-> st.wlo, whi |-> st.whi, wlim |-> height(bm1) * bm1.row_stride],
     ub |-> \/ st.rlo < 0 \/ st.rhi >= Len(srcbm.data)
            \/ st.wlo < 0 \/ st.whi >= Len(bm1.data)]

(* ---------------------------- nearesetNumber --------------------------- *)
Val == <<0, 128, 255>>

RECURSIVE nearestLoop(_, _, _, _)
nearestLoop(inValue, i, min, minIndex) ==
    IF i >= 3 THEN minIndex
    ELSE LET curMin == IF inValue > Val[i + 1] THEN inValue - Val[i + 1]
                       ELSE Val[i + 1] - inValue
         IN IF curMin < min THEN nearestLoop(inValue, i + 1, curMin, i)
            ELSE nearestLoop(inValue, i + 1, min, minIndex)

nearesetNumberIndex(inValue) == nearestLoop(inValue, 0, 255, 0)

nearesetNumber(inValue) == Val[nearestLoop(inValue, 0, 255, 0) + 1]

(* ------------------------------ cellShade ------------------------------ *)
RECURSIVE cellShadeCh(_, _, _, _, _)
cellShadeCh(st, bm, po, ch, g) ==
    IF Strict(st) /\ ch >= bm.imageType THEN st
    ELSE cellShadeCh(WritePx(NoteRd(st, po + ch, 1), po + ch,
                             <<nearesetNumber(Rd(st.d, po + ch, g))>>),
                     bm, po, ch + 1, g)

RECURSIVE cellShadeX(_, _, _, _, _)
cellShadeX(st, bm, y, x, g) ==
    IF Strict(st) /\ x >= width(bm) THEN st
    ELSE cellShadeX(cellShadeCh(st, bm, bm.row_stride * y + x * bm.imageType, 0, g),
                    bm, y, x + 1, g)

RECURSIVE cellShadeY(_, _, _, _)
cellShadeY(st, bm, y, g) ==
    IF Strict(st) /\ y >= height(bm) THEN st
    ELSE cellShadeY(cellShadeX(st, bm, y, 0, g), bm, y + 1, g)

cellShade(bm, g) == FilterResult(bm, cellShadeY(St0(bm.data), bm, 0, g), bm)

(* ------------------------------ grayscale ------------------------------ *)
grayPixel(st, bm, po, g) ==
    IF bm.imageType = 3
    THEN LET p == ReadPx(st.d, po, 3, g)
             gray == (CDiv(p[1] + p[2] + p[3], bm.imageType)) % 65536
         IN WritePx(NoteRd(st, po, 3), po, <<gray % 256, gray % 256, gray % 256>>)
    ELSE LET p == ReadPx(st.d, po, 4, g)
             gray == (CDiv(p[1] + p[2] + p[3] + p[4], bm.imageType)) % 65536
         IN WritePx(NoteRd(st, po, 4), po,
                    <<gray % 256, gray % 256, gray % 256, gray % 256>>)

RECURSIVE grayscaleX(_, _, _, _, _)
grayscaleX(st, bm, y, x, g) ==
    IF Strict(st) /\ x >= width(bm) THEN st
    ELSE grayscaleX(grayPixel(st, bm, bm.row_stride * y + x * bm.imageType, g),
                    bm, y, x + 1, g)

RECURSIVE grayscaleY(_, _, _, _)
grayscaleY(st, bm, y, g) ==
    IF Strict(st) /\ y >= height(bm) THEN st
    ELSE grayscaleY(grayscaleX(st, bm, y, 0, g), bm, y + 1, g)

grayscale(bm, g) == FilterResult(bm, grayscaleY(St0(bm.data), bm, 0, g), bm)

(* ------------------------------- flips --------------------------------- *)
(* Bitmap original = b: the flips read the copy taken on entry.            *)
FlipSrcLive(st, snap) == st.d

FlipSrc(st, snap) == snap

RECURSIVE flipvX(_, _, _, _, _, _)
flipvX(st, snap, bm, y, x, g) ==
    IF Strict(st) /\ x >= width(bm) * bm.imageType THEN st
    ELSE flipvX(WritePx(NoteRd(st, bm.row_stride * y + x, NCh(bm)),
                        bm.row_stride * ((height(bm) - 1) - y) + x,
                        ReadPx(FlipSrc(st, snap), bm.row_stride * y + x, NCh(bm), g)),
                snap, bm, y, (x + bm.imageType) % 65536, g)

RECURSIVE flipvY(_, _, _, _, _)
flipvY(st, snap, bm, y, g) ==
    IF Strict(st) /\ y >= height(bm) THEN st
    ELSE flipvY(flipvX(st, snap, bm, y, 0, g), snap, bm, (y + 1) % 65536, g)

flipv(bm, g) == FilterResult(bm, flipvY(St0(bm.data), bm.data, bm, 0, g), bm)

RECURSIVE fliphX(_, _, _, _, _, _)
fliphX(st, snap, bm, y, x, g) ==
    IF Strict(st) /\ x >= width(bm) * bm.imageType THEN st
    ELSE LET offset == ((width(bm) - 1) * bm.imageType - x) % 65536
         IN fliphX(WritePx(NoteRd(st, bm.row_stride * y + offset, NCh(bm)),
                           bm.row_stride * y + x,
                           ReadPx(FlipSrc(st, snap), bm.row_stride * y + offset, NCh(bm), g)),
                   snap, bm, y, (x + bm.imageType) % 65536, g)

RECURSIVE fliphY(_, _, _, _, _)
fliphY(st, snap, bm, y, g) ==
    IF Strict(st) /\ y >= height(bm) THEN st
    ELSE fliphY(fliphX(st, snap, bm, y, 0, g), snap, bm, (y + 1) % 65536, g)

fliph(bm, g) == FilterResult(bm, fliphY(St0(bm.data), bm.data, bm, 0, g), bm)

(* ------------------------------ pixelate ------------------------------- *)
(* int16_t offset[16] = {-8 .. 7}; offset[16], read by the write loop, is   *)
(* one past the array: its value g16 is indeterminate.                     *)
PixOffset(i, g16) == IF i < 16 THEN i - 8 ELSE g16

AddPx(value, p) ==
    [k \in 1..4 |-> IF k <= Len(p) THEN value[k] + p[k] ELSE value[k]]

RECURSIVE pixSumX(_, _, _, _, _, _, _)
pixSumX(acc0, snap, bm, oRow, x, oX, g) ==
    IF Strict(acc0.st) /\ oX >= 16 THEN acc0
    ELSE LET po == oRow + (x + PixOffset(oX, 0)) * bm.imageType
         IN pixSumX([st |-> NoteRd(acc0.st, po, NCh(bm)),
                     value |-> AddPx(acc0.value, ReadPx(snap, po, NCh(bm), g))],
                    snap, bm, oRow, x, oX + 1, g)

RECURSIVE pixSumY(_, _, _, _, _, _, _)
pixSumY(acc0, snap, bm, y, x, oY, g) ==
    IF Strict(acc0.st) /\ oY >= 16 THEN acc0
    ELSE pixSumY(pixSumX(acc0, snap, bm, bm.row_stride * (y + PixOffset(oY, 0)), x, 0, g),
                 snap, bm, y, x, oY + 1, g)

RECURSIVE pixWriteX(_, _, _, _, _, _, _)
pixWriteX(st, bm, oRow, x, oX, vals, g16) ==
    IF Strict(st) /\ oX >= 17 THEN st
    ELSE pixWriteX(WritePx(st, oRow + (x + PixOffset(oX, g16)) * bm.imageType, vals),
                   bm, oRow, x, oX + 1, vals, g16)

RECURSIVE pixWriteY(_, _, _, _, _, _, _)
pixWriteY(st, bm, y, x, oY, vals, g16) ==
    IF Strict(st) /\ oY >= 16 THEN st
    ELSE pixWriteY(pixWriteX(st, bm, bm.row_stride * (y + PixOffset(oY, 0)), x, 0, vals, g16),
                   bm, y, x, oY + 1, vals, g16)

pixBlock(st, snap, bm, y, x, g, g16) ==
    LET s == pixSumY([st |-> st, value |-> <<0, 0, 0, 0>>], snap, bm, y, x, 0, g)
        vals == [k \in 1..NCh(bm) |-> (s.value[k] \div (16 * 16)) % 256]
    IN pixWriteY(s.st, bm, y, x, 0, vals, g16)

RECURSIVE pixelateX(_, _, _, _, _, _, _)
pixelateX(st, snap, bm, y, x, g, g16) ==
    IF Strict(st) /\ x >= width(bm) - 8 THEN st
    ELSE pixelateX(pixBlock(st, snap, bm, y, x, g, g16), snap, bm, y, x + 8, g, g16)

RECURSIVE pixelateYInclusive(_, _, _, _, _, _)
pixelateYInclusive(st, snap, bm, y, g, g16) ==
    IF Strict(st) /\ y > height(bm) - 8 THEN st
    ELSE pixelateYInclusive(pixelateX(st, snap, bm, y, 8, g, g16),
                            snap, bm, y + 8, g, g16)

RECURSIVE pixelateY(_, _, _, _, _, _)
pixelateY(st, snap, bm, y, g, g16) ==
    IF Strict(st) /\ y >= height(bm) - 8 THEN st
    ELSE pixelateY(pixelateX(st, snap, bm, y, 8, g, g16), snap, bm, y + 8, g, g16)

pixelate(bm, g, g16) ==
    FilterResult(bm, pixelateY(St0(bm.data), bm.data, bm, 8, g, g16), bm)

(* -------------------------------- blur --------------------------------- *)
Kernel == <<1, 4, 6, 4, 1>>

BlurFilter(yOff, xOff) == Kernel[yOff + 1] * Kernel[xOff + 1]

RECURSIVE blurSumY(_, _, _, _, _, _, _)
blurSumY(acc0, bm, y, x, xOff, yOff, g) ==
    IF Strict(acc0.st) /\ yOff >= 5 THEN acc0
    ELSE LET po == bm.row_stride * (y + yOff - 2) + (x + xOff - 2) * bm.imageType
             p == ReadPx(acc0.st.d, po, NCh(bm), g)
         IN blurSumY([st |-> NoteRd(acc0.st, po, NCh(bm)),
                      value |-> [k \in 1..4 |->
                                   IF k <= NCh(bm)
                                   THEN (acc0.value[k] + p[k] * BlurFilter(yOff, xOff)) % 65536
                                   ELSE acc0.value[k]]],
                     bm, y, x, xOff, yOff + 1, g)

RECURSIVE blurSumX(_, _, _, _, _, _)
blurSumX(acc0, bm, y, x, xOff, g) ==
    IF Strict(acc0.st) /\ xOff >= 5 THEN acc0
    ELSE blurSumX(blurSumY(acc0, bm, y, x, xOff, 0, g), bm, y, x, xOff + 1, g)

(* filterValue[ch] / 255.0 stored back into the uint16_t, then into the     *)
(* uint8_t pixel channel.                                                  *)
BlurDivide(fv) == fv \div 255

blurPixel(st, bm, y, x, g) ==
    LET s == blurSumX([st |-> st, value |-> <<0, 0, 0, 0>>], bm, y, x, 0, g)
    IN WritePx(s.st, bm.row_stride * y + x * bm.imageType,
               [ch \in 1..bm.imageType |-> BlurDivide(s.value[ch]) % 256])

RECURSIVE blurX(_, _, _, _, _)
blurX(st, bm, y, x, g) ==
    IF Strict(st) /\ x >= width(bm) - 3 THEN st
    ELSE blurX(blurPixel(st, bm, y, x, g), bm, y, x + 1, g)

RECURSIVE blurY(_, _, _, _)
blurY(st, bm, y, g) ==
    IF Strict(st) /\ y >= height(bm) - 3 THEN st
    ELSE blurY(blurX(st, bm, y, 2, g), bm, y + 1, g)

blur(bm, g) == FilterResult(bm, blurY(St0(bm.data), bm, 2, g), bm)

(* ---------------------------- scaleUp / scaleDown ---------------------- *)
PaddedWidth(w) == w + CRem(w, 4)

ScaledHeader(bm, w, h) ==
    LET b1 == SetWidth(bm, PaddedWidth(w))
    IN SetHeight([b1 EXCEPT !.row_stride = CDiv(width(b1) * bit_count(b1), 8)], h)

ZeroPx(bm) == [k \in 1..NCh(bm) |-> 0]

RECURSIVE zeroFill(_, _, _, _)
zeroFill(st, nb, row, c) ==
    IF Strict(st) /\ c >= width(nb) THEN st
    ELSE zeroFill(WritePx(st, row + c * nb.imageType, ZeroPx(nb)), nb, row, c + 1)

RECURSIVE scaleUpC(_, _, _, _, _, _, _, _)
scaleUpC(q, snap, nb, srcRow, row, x, cCount, g) ==
    IF Strict(q.st) /\ cCount >= 2 THEN q
    ELSE scaleUpC([st |-> WritePx(NoteRd(q.st, srcRow + x * nb.imageType, NCh(nb)),
                                  row + q.c * nb.imageType,
                                  ReadPx(snap, srcRow + x * nb.imageType, NCh(nb), g)),
                   c |-> q.c + 1],
                  snap, nb, srcRow, row, x, cCount + 1, g)

RECURSIVE scaleUpX(_, _, _, _, _, _, _)
scaleUpX(q, snap, nb, srcRow, row, x, g) ==
    IF Strict(q.st) /\ x >= width(nb) THEN q
    ELSE scaleUpX(scaleUpC(q, snap, nb, srcRow, row, x, 0, g),
                  snap, nb, srcRow, row, x + 1, g)

RECURSIVE scaleUpR(_, _, _, _, _, _, _)
scaleUpR(q, snap, nb, srcRow, rCount, r, g) ==
    IF Strict(q.st) /\ rCount >= 2 THEN q
    ELSE LET row == nb.row_stride * (r + rCount)
             q1 == scaleUpX([st |-> q.st, c |-> 0], snap, nb, srcRow, row, 0, g)
         IN scaleUpR([st |-> zeroFill(q1.st, nb, row, q1.c), c |-> 0],
                     snap, nb, srcRow, rCount + 1, r, g)

RECURSIVE scaleUpY(_, _, _, _, _, _)
scaleUpY(st, ob, nb, y, r, g) ==
    IF Strict(st) /\ y >= height(ob) THEN st
    ELSE scaleUpY(scaleUpR([st |-> st, c |-> 0], ob.data, nb, ob.row_stride * y, 0, r, g).st,
                  ob, nb, (y + 1) % 65536, r + 2, g)

scaleUp(bm, g) ==
    LET nb == ScaledHeader(bm, width(bm) * 2, height(bm) * 2)
    IN FilterResult(nb, scaleUpY(St0(bm.data), bm, nb, 0, 0, g), bm)

RECURSIVE scaleDownX(_, _, _, _, _, _, _)
scaleDownX(q, ob, nb, srcRow, row, x, g) ==
    IF Strict(q.st) /\ (x >= width(ob) \/ q.c >= nb.row_stride) THEN q
    ELSE IF x % 2 = 0 THEN scaleDownX(q, ob, nb, srcRow, row, (x + 1) % 65536, g)
    ELSE scaleDownX([st |-> WritePx(NoteRd(q.st, srcRow + x * nb.imageType, NCh(nb)),
                                    row + q.c * nb.imageType,
                                    ReadPx(ob.data, srcRow + x * nb.imageType, NCh(nb), g)),
                     c |-> (q.c + 1) % 65536],
                    ob, nb, srcRow, row, (x + 1) % 65536, g)

RECURSIVE scaleDownY(_, _, _, _, _, _)
scaleDownY(st, ob, nb, y, r, g) ==
    IF Strict(st) /\ y >= height(ob) THEN st
    ELSE IF y % 2 = 0 THEN scaleDownY(st, ob, nb, (y + 1) % 65536, r, g)
    ELSE LET row == nb.row_stride * r
             q1 == scaleDownX([st |-> st, c |-> 0], ob, nb, ob.row_stride * y, row, 0, g)
         IN scaleDownY(zeroFill(q1.st, nb, row, q1.c), ob, nb,
                       (y + 1) % 65536, (r + 1) % 65536, g)

scaleDown(bm, g) ==
    LET nb == ScaledHeader(bm, CDiv(width(bm), 2), CDiv(height(bm), 2))
    IN FilterResult(nb, scaleDownY(St0(bm.data), bm, nb, 0, 0, g), bm)

(* ------------------------------- inputs -------------------------------- *)
(* Pixel bytes of the input images: byte i of the pixel data.  The values  *)
(* include the quantisation ties and neighbours (63, 64, 127, 128, 191,    *)
(* 192) and both ends of the range.                                        *)
Palette == <<64, 191, 192, 0, 255, 128, 127, 63, 10, 200, 33>>

PixelByte(i) == Palette[(i % Len(Palette)) + 1]

RECURSIVE FileRows(_, _, _, _)
FileRows(w, h, bpp, y) ==
    IF y >= h THEN <<>>
    ELSE [k \in 1..(w * bpp) |-> PixelByte(y * w * bpp + k - 1)]
             \o Zeros(AlignUp(w * bpp, 4) - w * bpp)
             \o FileRows(w, h, bpp, y + 1)

(* A BMP file: BMPFileHeader, BMPInfoHeader declaring hs bytes of DIB      *)
(* header, the BMPColorHeader when mask is TRUE, gap bytes, then the rows, *)
(* each padded to a multiple of 4 bytes.                                   *)
BmpFile(w, h, bits, hs, mask, gap) ==
    LET rows == FileRows(w, h, bits \div 8, 0)
        off == SizeofFileHeader + SizeofInfoHeader
                 + (IF mask THEN SizeofColorHeader ELSE 0) + gap
    IN <<66, 77>> \o LE32(off + Len(rows)) \o <<0, 0, 0, 0>> \o LE32(off)
         \o LE32(hs) \o LE32(w) \o LE32(h) \o LE16(1) \o LE16(bits)
         \o LE32(IF bits = 32 THEN 3 ELSE 0) \o LE32(Len(rows)) \o Zeros(16)
         \o (IF mask THEN DefaultColorHeader ELSE <<>>)
         \o [k \in 1..gap |-> 238]
         \o rows

WellFormed(w, h, bits, gap) ==
    IF bits = 32
    THEN BmpFile(w, h, bits, SizeofInfoHeader + SizeofColorHeader, TRUE, gap)
    ELSE BmpFile(w, h, bits, SizeofInfoHeader, FALSE, gap)

SmallDims == (1..MaxW) \X (1..MaxH)
BlurDims == {<<7, 6>>}
PixelateDims == {<<17, 17>>, <<17, 16>>}
OtherDims == {<<3, 2>>, <<4, 1>>}
Garbage == {0, 255}
G16 == {8, -9}

(* kind "flat255", "flat200": a Bitmap built by the caller, every byte of   *)
(* its rows holding the one value.                                         *)
FlatKinds == {"flat255", "flat200"}

FlatValue(k) == IF k = "flat255" THEN 255 ELSE 200

(* kind "ok": a well-formed file (for 32 bits a 124-byte DIB header, the    *)
(* info header and the colour header); "gap": well-formed, the pixel data  *)
(* 16 bytes after the headers; "badsig_*": the                             *)
(* first two bytes are not "BM"; "nomask": 32 bits with a 40-byte DIB      *)
(* header; "trunc_*": a well-formed file cut short; "image": no file, a    *)
(* Bitmap built by the caller.                                             *)
Inputs ==
    {[kind |-> k, w |-> d[1], h |-> d[2], bits |-> bt] :
        k \in {"ok", "image"}, d \in SmallDims \cup BlurDims, bt \in {24, 32}}
    \cup {[kind |-> "image", w |-> d[1], h |-> d[2], bits |-> 24] : d \in PixelateDims}
    \cup {[kind |-> k, w |-> d[1], h |-> d[2], bits |-> bt] :
            k \in {"gap", "badsig_BX", "badsig_MB", "trunc_hdr", "trunc_pix"},
            d \in OtherDims, bt \in {24, 32}}
    \cup {[kind |-> "nomask", w |-> d[1], h |-> d[2], bits |-> 32] : d \in OtherDims}
    \cup {[kind |-> k, w |-> d[1], h |-> d[2], bits |-> bt] :
            k \in FlatKinds, d \in BlurDims, bt \in {24, 32}}

StreamOf(i) ==
    LET f == WellFormed(i.w, i.h, i.bits, IF i.kind = "gap" THEN 16 ELSE 0)
    IN CASE i.kind = "badsig_BX" -> Put(f, 0, <<66, 88>>)
         [] i.kind = "badsig_MB" -> Put(f, 0, <<77, 66>>)
         [] i.kind = "nomask" -> BmpFile(i.w, i.h, 32, SizeofInfoHeader, FALSE, 0)
         [] i.kind = "trunc_hdr" -> SubSeq(f, 1, 30)
         [] i.kind = "trunc_pix" -> SubSeq(f, 1, Len(f) - 1)
         [] OTHER -> f

(* A Bitmap filled in by the caller through its public fields: the headers  *)
(* and the allocation of a decoded image, rows laid out at the 4-aligned   *)
(* stride, every byte of the height*row_stride region holding image bytes. *)
ValidImage(i) ==
    LET d == Decode(NewStream(WellFormed(i.w, i.h, i.bits, 0)), NewBitmap).b
        stride == AlignUp(i.w * (i.bits \div 8), 4)
    IN [d EXCEPT !.row_stride = stride,
                 !.data = [k \in 1..Len(d.data) |->
                             IF k <= i.h * stride THEN PixelByte(k - 1) ELSE 0]]

FlatImage(i) ==
    LET v == ValidImage(i)
    IN [v EXCEPT !.data = [k \in 1..Len(v.data) |->
                             IF k <= i.h * v.row_stride THEN FlatValue(i.kind) ELSE 0]]

ImageKinds == {"image"} \cup FlatKinds

ImageOf(i) == IF i.kind \in FlatKinds THEN FlatImage(i) ELSE ValidImage(i)

NoAcc == [rlo |-> 0, rhi |-> -1, rlim |-> 0, wlo |-> 0, whi |-> -1, wlim |-> 0]

(* ------------------------------- the program --------------------------- *)
Init ==
    \E i \in Inputs :
        /\ inp = i
        /\ out = <<>>
        /\ b2 = NewBitmap
        /\ in2 = NewStream(<<>>)
        /\ result = "none"
        /\ hist = <<>>
        /\ acc = NoAcc
        /\ IF i.kind \in ImageKinds
           THEN in = NewStream(<<>>) /\ b = ImageOf(i) /\ b0 = ImageOf(i) /\ pc = "ready"
           ELSE in = NewStream(StreamOf(i)) /\ b = NewBitmap /\ b0 = NewBitmap /\ pc = "start"

(* in >> b *)
DecodeStream ==
    /\ pc = "start"
    /\ LET r == Decode(in, b)
       IN /\ in' = r.in
          /\ b' = r.b
          /\ b0' = r.b
          /\ IF r.outcome = "ok" THEN result' = "ok" /\ pc' = "ready"
             ELSE IF r.outcome = "caught"
             THEN \E o \in {"ub_return", "crash"} :
                      result' = o /\ pc' = (IF o = "crash" THEN "crashed" ELSE "undefined")
             ELSE result' = r.outcome /\ pc' = "failed"
    /\ UNCHANGED <<inp, out, b2, in2, hist, acc>>

CanFilter == pc = "ready" /\ Len(hist) < MaxOps

(* The state after a filter call that produced r: when an access left the   *)
(* vector the call either goes on or the process dies.                     *)
Finish(name, r) ==
    /\ b' = r.b
    /\ acc' = r.acc
    /\ hist' = Append(hist, name)
    /\ IF r.ub
       THEN \E o \in {"ok", "crash"} :
                result' = o /\ pc' = (IF o = "crash" THEN "crashed" ELSE "ready")
       ELSE result' = "ok" /\ pc' = "ready"
    /\ UNCHANGED <<inp, in, b0, out, b2, in2>>

(* The outcomes of a call: one when every access stays inside the vector,  *)
(* one per indeterminate value otherwise.                                  *)
Outcomes(r0, r1) == IF r0.ub THEN {r0, r1} ELSE {r0}

CellShade ==
    CanFilter /\ \E r \in Outcomes(cellShade(b, 0), cellShade(b, 255)) : Finish("cellShade", r)
Grayscale ==
    CanFilter /\ \E r \in Outcomes(grayscale(b, 0), grayscale(b, 255)) : Finish("grayscale", r)
Pixelate ==
    CanFilter /\ \E g16 \in G16 :
        \E r \in Outcomes(pixelate(b, 0, g16), pixelate(b, 255, g16)) : Finish("pixelate", r)
Blur == CanFilter /\ \E r \in Outcomes(blur(b, 0), blur(b, 255)) : Finish("blur", r)
FlipV == CanFilter /\ \E r \in Outcomes(flipv(b, 0), flipv(b, 255)) : Finish("flipv", r)
FlipH == CanFilter /\ \E r \in Outcomes(fliph(b, 0), fliph(b, 255)) : Finish("fliph", r)
ScaleUp == CanFilter /\ \E r \in Outcomes(scaleUp(b, 0), scaleUp(b, 255)) : Finish("scaleUp", r)
ScaleDown ==
    CanFilter /\ \E r \in Outcomes(scaleDown(b, 0), scaleDown(b, 255)) : Finish("scaleDown", r)

(* out << b: operator<< has no return statement, so a call that does not    *)
(* throw flows off the end of a function returning std::ostream&.          *)
EncodeStream ==
    /\ pc = "ready"
    /\ \E g \in Garbage :
        LET e == Encode(b, g)
        IN /\ out' = e.bytes
           /\ IF e.thrown THEN result' = "runtime_error" /\ pc' = "failed"
              ELSE \E o \in {"ub_return", "crash"} :
                       result' = o /\ pc' = (IF o = "crash" THEN "crashed" ELSE "encoded")
    /\ UNCHANGED <<inp, in, b, b0, b2, in2, hist, acc>>

(* The written bytes decoded into a fresh Bitmap. *)
Redecode ==
    /\ pc = "encoded"
    /\ LET r == Decode(NewStream(out), NewBitmap)
       IN /\ in2' = r.in
          /\ b2' = r.b
          /\ IF r.outcome = "ok" THEN result' = "ok" /\ pc' = "redecoded"
             ELSE IF r.outcome = "caught"
             THEN \E o \in {"ub_return", "crash"} :
                      result' = o /\ pc' = (IF o = "crash" THEN "crashed" ELSE "undefined")
             ELSE result' = r.outcome /\ pc' = "failed"
    /\ UNCHANGED <<inp, in, b, b0, out, hist, acc>>

Next ==
    \/ DecodeStream
    \/ CellShade
    \/ Grayscale
    \/ Pixelate
    \/ Blur
    \/ FlipV
    \/ FlipH
    \/ ScaleUp
    \/ ScaleDown
    \/ EncodeStream
    \/ Redecode

Spec == Init /\ [][Next]_vars

(* ------------------------------- claims -------------------------------- *)
StreamKinds ==
    {"ok", "gap", "badsig_BX", "badsig_MB", "nomask", "trunc_hdr", "trunc_pix"}

WellFormedKinds == {"ok", "gap"}

(* The input was a stream and in >> b has been called. *)
DecodeCalled == inp.kind \in StreamKinds /\ pc # "start"

BadSignature(bytes) == Len(bytes) < 2 \/ bytes[1] # 66 \/ bytes[2] # 77

ValidStride(bm) ==
    /\ width(bm) >= 1
    /\ height(bm) >= 1
    /\ bm.imageType \in {3, 4}
    /\ bm.row_stride % 4 = 0
    /\ bm.row_stride >= width(bm) * bm.imageType
    /\ Len(bm.data) >= height(bm) * bm.row_stride

(* Offset in the decoded buffer of pixel (x, y) of the file: operator>>     *)
(* stores row y of the file at width*bit_count/8*y.                        *)
DecodedPixelOffset(bm, x, y) == RowStrideOf(bm) * y + x * bm.imageType

(* Offset in a written file of pixel (x, y): rows padded to 4 bytes. *)
FilePixelOffset(bm, x, y) ==
    offset_data(bm) + AlignUp(width(bm) * bm.imageType, 4) * y + x * bm.imageType

GrayAt(d, po, n) == \A k \in 1..(n - 1) : d[po + k] = d[po + k + 1]

(* C1: a well-formed 24bpp or 32bpp file, decoded, written back with no     *)
(* filter applied and decoded again into a fresh Bitmap, gives the same    *)
(* pixel buffer byte for byte and the same normalized header fields.       *)
C1_RoundTrip ==
    (pc = "redecoded" /\ inp.kind \in WellFormedKinds /\ hist = <<>>) =>
        /\ b2.data = b.data
        /\ hdr_size(b2) = hdr_size(b)
        /\ offset_data(b2) = offset_data(b)
        /\ file_size(b2) = file_size(b)
        /\ width(b2) = width(b)
        /\ height(b2) = height(b)
        /\ bit_count(b2) = bit_count(b)

C1_Witness ==
    /\ pc = "redecoded" /\ inp.kind = "ok" /\ hist = <<>>
    /\ inp.w = 3 /\ inp.h = 2 /\ inp.bits = 24
    /\ b2.data = b.data
    /\ SubSeq(b.data, 1, 18) = [k \in 1..18 |-> PixelByte(k - 1)]
    /\ file_size(b2) = file_size(b)

(* C2: after a successful decode of a well-formed file row_stride is a      *)
(* multiple of 4 and at least width * bytes_per_pixel; a 4x2 24bpp image   *)
(* decodes to row_stride 12.                                               *)
C2_StrideInvariant ==
    (pc = "ready" /\ inp.kind \in WellFormedKinds /\ hist = <<>> /\ result = "ok") =>
        /\ b.row_stride % 4 = 0
        /\ b.row_stride >= width(b) * b.imageType
        /\ (inp.w = 4 /\ inp.h = 2 /\ inp.bits = 24) => b.row_stride = 12

(* C3: decoding a stream whose first two bytes are not "BM" raises an error *)
(* to the caller, and nothing after the 14-byte file header is read: one   *)
(* read of 14 bytes, no info header, no colour header, no pixel buffer.    *)
C3_BadSignature ==
    (DecodeCalled /\ BadSignature(in.bytes)) =>
        /\ pc = "failed"
        /\ result = "runtime_error"
        /\ in.nread = 1
        /\ in.asked = SizeofFileHeader
        /\ in.pos <= SizeofFileHeader
        /\ b.bmp_info_header = NewBitmap.bmp_info_header
        /\ b.bmp_color_header = NewBitmap.bmp_color_header
        /\ b.data = <<>>

C3_Witness ==
    /\ inp.kind = "badsig_BX" /\ pc = "failed" /\ result = "runtime_error"
    /\ in.bytes[1] = 66 /\ in.bytes[2] = 88
    /\ in.pos = SizeofFileHeader /\ Len(in.bytes) > SizeofFileHeader
    /\ b.data = <<>>

(* C4: decoding a 32bpp stream whose declared DIB header size is below 108   *)
(* ends in a failure the caller observes as an error; the call never       *)
(* completes as if decoding had succeeded.                                 *)
C4_MissingMaskFails ==
    (DecodeCalled /\ ~BadSignature(in.bytes) /\ bit_count(b) = 32
        /\ hdr_size(b) < SizeofInfoHeader + SizeofColorHeader /\ inp.kind = "nomask") =>
        pc = "failed" /\ result \in {"runtime_error", "BitmapException"}

(* C5: when the stream delivers fewer bytes than decode asked for, decode   *)
(* ends in a failure; it never returns normally.                           *)
C5_ShortReadFails ==
    (DecodeCalled /\ in.got < in.asked) => (pc = "failed" /\ result # "ok")

(* C6: scaleUp followed by scaleDown leaves width and height as they were,  *)
(* for every image of width >= 1 and height >= 1.                          *)
C6_ScaleRoundTripDims ==
    /\ (pc = "ready" /\ hist = <<"scaleUp">> /\ width(b0) >= 1 /\ height(b0) >= 1) =>
          /\ width(scaleDown(b, 0).b) = width(b0)
          /\ height(scaleDown(b, 0).b) = height(b0)
    /\ (pc = "ready" /\ hist = <<"scaleUp", "scaleDown">>
          /\ width(b0) >= 1 /\ height(b0) >= 1) =>
          /\ width(b) = width(b0)
          /\ height(b) = height(b0)

(* C7: on an image with a valid row stride, flipv applied twice restores    *)
(* the bitmap (pixel buffer, headers, stride) exactly, and so does fliph   *)
(* applied twice.                                                          *)
C7_FlipInvolution ==
    /\ (pc = "ready" /\ ValidStride(b0) /\ hist = <<"flipv">>) => flipv(b, 0).b = b0
    /\ (pc = "ready" /\ ValidStride(b0) /\ hist = <<"fliph">>) => fliph(b, 0).b = b0
    /\ (pc = "ready" /\ ValidStride(b0)
          /\ (hist = <<"flipv", "flipv">> \/ hist = <<"fliph", "fliph">>)) => b = b0

C7_Witness ==
    /\ pc = "ready" /\ ValidStride(b0) /\ hist = <<"fliph">>
    /\ inp.w = 3 /\ inp.h = 2 /\ inp.bits = 24
    /\ b # b0
    /\ b.data[1] = b0.data[7]
    /\ fliph(b, 0).b = b0

(* C8: after grayscale of a decoded image every pixel (x, y) of the image   *)
(* has equal B, G and R (and, for 32bpp, alpha), in the buffer and in the  *)
(* file written from it.                                                   *)
C8_GrayEveryPixel ==
    /\ (pc = "ready" /\ inp.kind \in WellFormedKinds /\ hist = <<"grayscale">>) =>
          \A y \in 0..(height(b) - 1) : \A x \in 0..(width(b) - 1) :
              GrayAt(b.data, DecodedPixelOffset(b, x, y), b.imageType)
    /\ (pc = "encoded" /\ inp.kind \in WellFormedKinds /\ hist = <<"grayscale">>) =>
          \A y \in 0..(height(b) - 1) : \A x \in 0..(width(b) - 1) :
              GrayAt(out, FilePixelOffset(b, x, y), b.imageType)

(* C9: cellShade applied twice gives the pixel buffer that cellShade applied *)
(* once gives, for every channel value 0..255.                             *)
C9_QuantizeIdempotent ==
    /\ (pc = "ready" /\ hist # <<>> /\ hist[Len(hist)] = "cellShade") =>
          /\ cellShade(b, 0).b.data = b.data
          /\ \A v \in 0..255 : nearesetNumber(nearesetNumber(v)) = nearesetNumber(v)
    /\ (pc = "ready" /\ hist = <<"cellShade", "cellShade">>) =>
          b.data = cellShade(b0, 0).b.data

C9_Witness ==
    /\ pc = "ready" /\ hist = <<"cellShade">>
    /\ inp.w = 4 /\ inp.h = 2
    /\ b0.data[1] = 64 /\ b0.data[2] = 191 /\ b0.data[3] = 192
    /\ b.data[1] = 0 /\ b.data[2] = 128 /\ b.data[3] = 255
    /\ cellShade(b, 0).b.data = b.data

(* C10: in a filter call on an image with a valid stride every offset read  *)
(* lies in [0, height*row_stride) of the buffer read and every offset      *)
(* written in [0, height*row_stride) of the resulting image.               *)
C10_AccessInBounds ==
    (Len(hist) = 1 /\ ValidStride(b0)) =>
        /\ acc.rlo >= 0
        /\ acc.rhi < acc.rlim
        /\ acc.wlo >= 0
        /\ acc.whi < acc.wlim

(* Blur: the pixels the loops of blur visit, in the order y outer, x inner. *)
BlurProcessed(bm, x, y) ==
    x >= 2 /\ x < width(bm) - 3 /\ y >= 2 /\ y < height(bm) - 3

(* Channel ch of pixel (nx, ny) as blur reads it while computing pixel      *)
(* (x, y): the written value when (nx, ny) was visited earlier, the        *)
(* original value otherwise (every pixel is written once, after it is read *)
(* for itself).                                                            *)
BlurSample(x, y, nx, ny, ch) ==
    LET off == b0.row_stride * ny + nx * b0.imageType + ch
    IN IF BlurProcessed(b0, nx, ny) /\ (ny < y \/ (ny = y /\ nx < x))
       THEN b.data[off + 1] ELSE b0.data[off + 1]

RECURSIVE BlurWeighted(_, _, _, _)
BlurWeighted(x, y, ch, k) ==
    IF k >= 25 THEN 0
    ELSE Kernel[(k \div 5) + 1] * Kernel[(k % 5) + 1]
             * BlurSample(x, y, x + (k % 5) - 2, y + (k \div 5) - 2, ch)
           + BlurWeighted(x, y, ch, k + 1)

BlurUniform(x, y, ch, v) ==
    \A k \in 0..24 : BlurSample(x, y, x + (k % 5) - 2, y + (k \div 5) - 2, ch) = v

BlurWritten(x, y, ch) == b.data[b0.row_stride * y + x * b0.imageType + ch + 1]

(* C11: every channel of every pixel blur visits is written with the 5x5    *)
(* kernel-weighted sum (total weight 256) of the neighbourhood values read *)
(* at that moment, divided by 256 and truncated; so it lies in 0..255 and  *)
(* equals v when all 25 samples equal v, v = 255 included.                 *)
C11_BlurKernel ==
    (pc = "ready" /\ hist = <<"blur">>) =>
        \A y \in 0..(height(b0) - 1) : \A x \in 0..(width(b0) - 1) :
            BlurProcessed(b0, x, y) =>
                \A ch \in 0..(b0.imageType - 1) :
                    /\ BlurWritten(x, y, ch) = BlurWeighted(x, y, ch, 0) \div 256
                    /\ BlurWritten(x, y, ch) \in 0..255
                    /\ \A v \in {0, 200, 255} :
                          BlurUniform(x, y, ch, v) => BlurWritten(x, y, ch) = v

(* Pixelate: pixel (x, y) lies in the first or last 8 rows or columns. *)
PixBorder(bm, x, y) ==
    x < 8 \/ x >= width(bm) - 8 \/ y < 8 \/ y >= height(bm) - 8

PixSame(x, y) ==
    \A ch \in 1..b0.imageType :
        b.data[b0.row_stride * y + x * b0.imageType + ch]
            = b0.data[b0.row_stride * y + x * b0.imageType + ch]

(* No anchor (y, x) with 8 <= y < height - 8 and 8 <= x < width - 8. *)
PixNoBlock(bm) == width(bm) <= 16 \/ height(bm) <= 16

(* C12 (as stated): pixelate leaves the border untouched: every pixel in    *)
(* the first 8 or last 8 rows, or the first 8 or last 8 columns, has the   *)
(* same channel values after pixelate as before.                           *)
C12_PixelateBorder ==
    (pc = "ready" /\ hist = <<"pixelate">>) =>
        \A y \in 0..(height(b0) - 1) : \A x \in 0..(width(b0) - 1) :
            PixBorder(b0, x, y) => PixSame(x, y)

(* C12 (amended): pixelate leaves the image untouched, border included,    *)
(* when no 16x16 block has an anchor in it (width <= 16 or height <= 16):  *)
(* the bitmap is the one before the call and no byte of the buffer is      *)
(* read or written.                                                        *)
C12_PixelateNoBlock ==
    (pc = "ready" /\ hist = <<"pixelate">> /\ PixNoBlock(b0)) =>
        /\ b = b0
        /\ acc.rhi = -1
        /\ acc.whi = -1
        /\ result = "ok"

C12_Witness ==
    /\ pc = "ready" /\ hist = <<"pixelate">>
    /\ width(b0) = 17 /\ height(b0) = 16
    /\ b = b0
    /\ b.data[1] = 64

(* scaleUp: channel ch of destination pixel (c, r), addressed with the new  *)
(* stride, and of source pixel (x, y), addressed with the old one; -1      *)
(* when the offset lies outside the vector.                                *)
ScaledPx(c, r, ch) == Rd(b.data, b.row_stride * r + c * b.imageType + ch, -1)

SourcePx(x, y, ch) == Rd(b0.data, b0.row_stride * y + x * b0.imageType + ch, -1)

ScaleUpReplicated ==
    \A y \in 0..(height(b0) - 1) : \A x \in 0..(width(b0) - 1) :
        \A dy \in {0, 1} : \A dx \in {0, 1} : \A ch \in 0..(b0.imageType - 1) :
            ScaledPx(2 * x + dx, 2 * y + dy, ch) = SourcePx(x, y, ch)

ScaleUpZeroFilled ==
    \A r \in 0..(height(b) - 1) : \A c \in (2 * width(b0))..(width(b) - 1) :
        \A ch \in 0..(b0.imageType - 1) : ScaledPx(c, r, ch) = 0

(* C13: after scaleUp every source pixel (x, y) equals, channel for         *)
(* channel, the destination pixels (2x, 2y), (2x+1, 2y), (2x, 2y+1) and    *)
(* (2x+1, 2y+1), and every destination pixel in columns 2*old_width ..     *)
(* new_width-1 of every destination row has all channels 0.                *)
C13_ScaleUpReplication ==
    (pc = "ready" /\ hist = <<"scaleUp">>) =>
        /\ width(b) = PaddedWidth(2 * width(b0))
        /\ height(b) = 2 * height(b0)
        /\ ScaleUpReplicated
        /\ ScaleUpZeroFilled

====
